---- MODULE Spec2Model ----
(***************************************************************************)
(* Model of the Basable service registry (core/src/base/foundation.rs):    *)
(* the users map, the connections map, the shared connection handles       *)
(* (Arc<Mutex<driver>>) built by create_connection, and the request        *)
(* threads that fetch a handle, take its mutex and invoke the operations   *)
(* of the BasableConnection trait through it.                              *)
(*                                                                         *)
(* Every method of Basable takes &self or &mut self, so one call is one    *)
(* atomic step on the registry in Spec; RegSpec steps through the calls of *)
(* concurrent request threads (borrow, lookup, write, return) and is where *)
(* that atomicity is checked.  A panic (todo!(), expect) unwinds the       *)
(* calling request: it is recorded as the call's outcome, and the registry *)
(* is left as the code left it when the panic was raised.                  *)
(***************************************************************************)
EXTENDS Naturals, FiniteSets

\* Bounds of the model.
MaxHandles == 2      \* successful create_connection calls (Arc allocations)

UserIds == {"1.2.3.4", "5.6.7.8"}
Threads == {"t1", "t2"}   \* request threads using connections concurrently
Insts   == 1..MaxHandles

\* Option<T>
None    == [some |-> FALSE]
Some(v) == [some |-> TRUE, val |-> v]

NoMutex  == 0
NoThread == "-"
NoId     == "-"

\* config.source_type(): Database(Mysql), Database(<other variant>), <other source>
Configs == { [kind |-> "Database", db |-> "Mysql"],
             [kind |-> "Database", db |-> "OtherDb"],
             [kind |-> "OtherSource", db |-> "-"] }

\* The operations of the BasableConnection trait that take a receiver.
ConnOps == {"details", "load_tables", "table_exists", "save_table_config"}

VARIABLES
    users,        \* Basable.users: id -> User, None where the map has no entry
    connections,  \* Basable.connections: id -> SharedConnection, None where absent
    nextInst,     \* number of driver instances constructed so far
    pending,      \* handles returned by create_connection, still owned by the caller
    pc,           \* per request thread: "idle", "waiting" (in lock()), "inside" (holds the guard)
    held,         \* per request thread: its clone of a SharedConnection, or None
    locked,       \* per mutex: the thread that holds its guard, or None
    lastAdded,    \* history: id -> handle given to the latest add_connection(id, _)
    hadUser,      \* history: the ids that have, or had, an entry in the users map
    reg,          \* per request thread: the registry call it is in (RegSpec), its
                  \* position (at), what it found, and the maps as it borrowed them
    last          \* the latest call: its name (op), its argument (arg), what it
                  \* returned (ret), and the entry of its id before the call (was)

vars == <<users, connections, nextInst, pending, pc, held, locked, lastAdded, hadUser, reg, last>>

\* ------------------------------------------------------------------ values

Ok(v)  == [tag |-> "Ok", val |-> v]
Err(e) == [tag |-> "Err", err |-> e]
Panic(m) == [tag |-> "Panic", msg |-> m]

Call(op, arg, was, ret) == [op |-> op, arg |-> arg, was |-> was, ret |-> ret]

\* struct User { id, is_logged }
User(id, logged) == [id |-> id, is_logged |-> logged]

\* Arc::new(Mutex::new(conn)): one handle, one mutex of its own around one driver.
\* Faulty variants: the driver shared with no mutex around it; every driver
\* behind one and the same mutex.
SharedConnection_Unguarded(conn) == [mutex |-> NoMutex, inner |-> conn]
SharedConnection_OneLock(conn) == [mutex |-> 1, inner |-> conn]
SharedConnection(conn) == [mutex |-> conn, inner |-> conn]

\* MysqlConn::new(config): the driver's constructor, which may fail.
MysqlConn_new(config, reachable, fresh) ==
    IF reachable THEN Ok(fresh) ELSE Err("ConnectionError")

\* create_jwt(req_ip): the session-minting collaborator, which may fail.
create_jwt(req_ip, mintOk) ==
    IF mintOk THEN Ok(<<"jwt", req_ip>>) ELSE Err("SessionMintError")

\* ------------------------------------------------- Basable's methods

\* Basable::create_connection(config)
\* Faulty variants: Ok(None) for a driver that was constructed; a failure of the
\* driver's constructor swallowed into Ok(None).
create_connection_NoHandle(config, reachable, fresh) ==
    IF config.kind = "Database"
    THEN IF config.db = "Mysql"
         THEN LET conn == MysqlConn_new(config, reachable, fresh)
              IN  IF conn.tag = "Err" THEN conn
                  ELSE Ok(None)
         ELSE Panic("not yet implemented")
    ELSE Panic("not yet implemented")
create_connection_SwallowErr(config, reachable, fresh) ==
    IF config.kind = "Database"
    THEN IF config.db = "Mysql"
         THEN LET conn == MysqlConn_new(config, reachable, fresh)
              IN  IF conn.tag = "Err" THEN Ok(None)
                  ELSE Ok(Some(SharedConnection(conn.val)))
         ELSE Panic("not yet implemented")
    ELSE Panic("not yet implemented")
create_connection(config, reachable, fresh) ==
    IF config.kind = "Database"
    THEN IF config.db = "Mysql"
         THEN LET conn == MysqlConn_new(config, reachable, fresh)
              IN  IF conn.tag = "Err" THEN conn
                  ELSE Ok(Some(SharedConnection(conn.val)))
         ELSE Panic("not yet implemented")
    ELSE Panic("not yet implemented")

\* Basable::get_connection(&self, user_id)
get_connection(conns, user_id) == conns[user_id]

\* Basable::find_user(&self, user_id)
find_user(us, user_id) == us[user_id]

\* Basable::add_user(&mut self, user)
\* Faulty variant: an insert that keeps the entry already there.
add_user_KeepExisting(us, user) ==
    IF us[user.id] = None THEN [us EXCEPT ![user.id] = Some(user)] ELSE us
add_user(us, user) == [us EXCEPT ![user.id] = Some(user)]

\* Basable::create_guest_user(&mut self, req_ip): the users map and the result.
\* Faulty variant: the user is inserted before the outcome of create_jwt is looked at.
create_guest_user_InsertFirst(us, req_ip, mintOk) ==
    LET session_id == create_jwt(req_ip, mintOk)
    IN  [users |-> add_user(us, User(req_ip, FALSE)), ret |-> session_id]
create_guest_user(us, req_ip, mintOk) ==
    LET session_id == create_jwt(req_ip, mintOk)
    IN  IF session_id.tag = "Err"
        THEN [users |-> us, ret |-> session_id]
        ELSE [users |-> add_user(us, User(req_ip, FALSE)), ret |-> session_id]

\* Basable::save_config(&mut self, config, user_id)
\* Faulty variant: saving the config marks the user as logged in.
save_config_MarksLogged(us, config, user_id) ==
    IF find_user(us, user_id) = None
    THEN [users |-> us, ret |-> Panic("Unable to find user with id")]
    ELSE [users |-> [us EXCEPT ![user_id] = Some(User(user_id, TRUE))],
          ret |-> Ok("unit")]
save_config(us, config, user_id) ==
    IF find_user(us, user_id) = None
    THEN [users |-> us, ret |-> Panic("Unable to find user with id")]
    ELSE [users |-> us, ret |-> Ok("unit")]

\* Basable::log_user_out(&mut self, user_id)
\* Faulty variants: the user is marked logged out and its entry kept; every
\* user is removed.
log_user_out_ClearAll(us, user_id) ==
    IF find_user(us, user_id) # None
    THEN [id \in DOMAIN us |-> None]
    ELSE us
log_user_out_KeepEntry(us, user_id) ==
    IF find_user(us, user_id) # None
    THEN [us EXCEPT ![user_id] = Some(User(user_id, FALSE))]
    ELSE us
log_user_out(us, user_id) ==
    IF find_user(us, user_id) # None
    THEN [us EXCEPT ![user_id] = None]
    ELSE us

\* Basable::add_connection(&mut self, user_id, conn)
\* Faulty variants: an insert that keeps the entry already there; the handle
\* stored under every id.
add_connection_AllIds(conns, user_id, conn) == [id \in DOMAIN conns |-> Some(conn)]
add_connection_KeepExisting(conns, user_id, conn) ==
    IF conns[user_id] = None THEN [conns EXCEPT ![user_id] = Some(conn)] ELSE conns
add_connection(conns, user_id, conn) == [conns EXCEPT ![user_id] = Some(conn)]

\* ------------------------------------------------- handles and their owners

\* Arc::strong_count: the owners of a handle (map entries, request threads
\* using it, the arguments of add_connection calls that have not stored theirs
\* yet, and the caller of create_connection until it hands the handle over).
\* The handle in pending is the one its caller passes, by value, as the
\* argument of add_connection; any further argument is a clone of it.
StrongCount(h) ==
    LET args == Cardinality({t \in Threads : /\ reg[t].at \in {"waiting", "begun"}
                                             /\ reg[t].conn = Some(h)})
    IN  Cardinality({id \in UserIds : connections[id] = Some(h)})
        + Cardinality({t \in Threads : held[t] = Some(h)})
        + (IF h \in pending /\ args = 0 THEN 1 ELSE args)

\* The driver of h is dropped (its resources released) once no owner is left.
Dropped(h) == StrongCount(h) = 0

\* Mutex::lock on the mutex of h by thread t returns at once.
CanLock(h) == IF h.mutex = NoMutex THEN TRUE ELSE locked[h.mutex] = NoThread

\* Dropping the MutexGuard of thread t unlocks the mutex.
\* Faulty variant: the mutex stays locked.
ReleaseGuard_Leak(lk, t) == lk
ReleaseGuard(lk, t) == [m \in DOMAIN lk |-> IF lk[m] = t THEN NoThread ELSE lk[m]]

\* ------------------------------------------------- concurrent registry calls

\* The methods of Basable that take a receiver.
RegOps == {"get_connection", "create_guest_user", "save_config", "find_user",
           "log_user_out", "add_connection"}

\* The receiver a method declares: get_connection and find_user take &self,
\* the others &mut self.
\* Faulty variant: every method takes &self.
Receiver_AllShared(op) == "&self"
Receiver(op) ==
    IF op \in {"get_connection", "find_user"} THEN "&self" ELSE "&mut self"

\* A request thread that is in no registry call.
NoCall == [at |-> "idle", op |-> "-", arg |-> NoId, conn |-> None,
           saw |-> None, found |-> None, ret |-> None]

\* The call r has borrowed the registry and has not returned yet.
Inside(r) == r.at \in {"begun", "found", "done"}

\* Thread t may borrow the registry for op: a &mut self borrow needs every other
\* thread outside the registry, a &self borrow needs no other thread inside a
\* &mut self call.
CanBorrow(rg, t, op) ==
    \A u \in Threads \ {t} :
        Inside(rg[u]) => (Receiver(op) = "&self" /\ Receiver(rg[u].op) = "&self")

\* self.users.remove(user_id)
users_remove(us, user_id) == [us EXCEPT ![user_id] = None]

\* ------------------------------------------------------------------ Init

Init ==
    /\ users = [id \in UserIds |-> None]
    /\ connections = [id \in UserIds |-> None]
    /\ nextInst = 0
    /\ pending = {}
    /\ pc = [t \in Threads |-> "idle"]
    /\ held = [t \in Threads |-> None]
    /\ locked = [m \in Insts |-> NoThread]
    /\ lastAdded = [id \in UserIds |-> None]
    /\ hadUser = {}
    /\ reg = [t \in Threads |-> NoCall]
    /\ last = Call("new", NoId, None, Ok("unit"))

\* ------------------------------------------------------------------ actions

CreateConnection(config, reachable) ==
    /\ nextInst < MaxHandles
    /\ LET r == create_connection(config, reachable, nextInst + 1)
       IN  /\ last' = Call("create_connection", config, None, r)
           /\ IF (IF r.tag = "Ok" THEN r.val # None ELSE FALSE)
              THEN /\ nextInst' = nextInst + 1
                   /\ pending' = pending \cup {r.val.val}
              ELSE UNCHANGED <<nextInst, pending>>
    /\ UNCHANGED <<reg, users, hadUser, connections, pc, held, locked, lastAdded>>

GetConnection(user_id) ==
    /\ last' = Call("get_connection", user_id, connections[user_id],
                     Ok(get_connection(connections, user_id)))
    /\ UNCHANGED <<reg, users, hadUser, connections, nextInst, pending, pc, held, locked, lastAdded>>

CreateGuestUser(req_ip, mintOk) ==
    /\ LET r == create_guest_user(users, req_ip, mintOk)
       IN  /\ users' = r.users
           /\ last' = Call("create_guest_user", req_ip, users[req_ip], r.ret)
    /\ hadUser' = hadUser \cup {id \in UserIds : users'[id] # None}
    /\ UNCHANGED <<reg, connections, nextInst, pending, pc, held, locked, lastAdded>>

SaveConfig(config, user_id) ==
    /\ LET r == save_config(users, config, user_id)
       IN  /\ users' = r.users
           /\ last' = Call("save_config", user_id, users[user_id], r.ret)
    /\ hadUser' = hadUser \cup {id \in UserIds : users'[id] # None}
    /\ UNCHANGED <<reg, connections, nextInst, pending, pc, held, locked, lastAdded>>

FindUser(user_id) ==
    /\ last' = Call("find_user", user_id, users[user_id],
                     Ok(find_user(users, user_id)))
    /\ UNCHANGED <<reg, users, hadUser, connections, nextInst, pending, pc, held, locked, lastAdded>>

\* Faulty variant of the step below: the user's connection is removed with it.
LogUserOut_DropsConnection(user_id) ==
    /\ users' = log_user_out(users, user_id)
    /\ last' = Call("log_user_out", user_id, users[user_id], Ok("unit"))
    /\ hadUser' = hadUser \cup {id \in UserIds : users'[id] # None}
    /\ connections' = [connections EXCEPT ![user_id] = None]
    /\ UNCHANGED <<reg, nextInst, pending, pc, held, locked, lastAdded>>

LogUserOut(user_id) ==
    /\ users' = log_user_out(users, user_id)
    /\ last' = Call("log_user_out", user_id, users[user_id], Ok("unit"))
    /\ hadUser' = hadUser \cup {id \in UserIds : users'[id] # None}
    /\ UNCHANGED <<reg, connections, nextInst, pending, pc, held, locked, lastAdded>>

\* The caller hands over the handle create_connection gave it (a move), or a
\* clone of a handle it got from get_connection.
AddConnection(user_id, conn) ==
    /\ \/ conn \in pending
       \/ \E id \in UserIds : get_connection(connections, id) = Some(conn)
    /\ connections' = add_connection(connections, user_id, conn)
    /\ pending' = pending \ {conn}
    /\ lastAdded' = [lastAdded EXCEPT ![user_id] = Some(conn)]
    /\ last' = Call("add_connection", user_id, connections[user_id], Ok("unit"))
    /\ UNCHANGED <<reg, users, hadUser, nextInst, pc, held, locked>>

\* The authentication path outside the registry: a guest becomes authenticated.
Authenticate(user_id) ==
    /\ users[user_id] # None
    /\ ~users[user_id].val.is_logged
    /\ users' = [users EXCEPT ![user_id] = Some(User(user_id, TRUE))]
    /\ last' = Call("authenticate", user_id, users[user_id], Ok("unit"))
    /\ hadUser' = hadUser \cup {id \in UserIds : users'[id] # None}
    /\ UNCHANGED <<reg, connections, nextInst, pending, pc, held, locked, lastAdded>>

\* A request thread looks its user's connection up and clones the handle.
Fetch(t, user_id) ==
    /\ pc[t] = "idle"
    /\ get_connection(connections, user_id) # None
    /\ held' = [held EXCEPT ![t] = get_connection(connections, user_id)]
    /\ pc' = [pc EXCEPT ![t] = "waiting"]
    /\ last' = Call("fetch", t, None, Ok("unit"))
    /\ UNCHANGED <<reg, users, hadUser, connections, nextInst, pending, locked, lastAdded>>

\* handle.lock() returns: the thread holds the guard.
Lock(t) ==
    /\ pc[t] = "waiting"
    /\ CanLock(held[t].val)
    /\ locked' = IF held[t].val.mutex = NoMutex THEN locked
                 ELSE [locked EXCEPT ![held[t].val.mutex] = t]
    /\ pc' = [pc EXCEPT ![t] = "inside"]
    /\ last' = Call("lock", t, held[t], Ok("unit"))
    /\ UNCHANGED <<reg, users, hadUser, connections, nextInst, pending, held, lastAdded>>

\* One operation of the trait through the guard.  A failure is returned to the
\* request, which ends: the guard and the clone of the handle are dropped.
Invoke(t, op, opOk) ==
    /\ pc[t] = "inside"
    /\ IF opOk
       THEN /\ last' = Call(op, t, held[t], Ok("unit"))
            /\ UNCHANGED <<pc, held, locked>>
       ELSE /\ last' = Call(op, t, held[t], Err("DriverError"))
            /\ locked' = ReleaseGuard(locked, t)
            /\ pc' = [pc EXCEPT ![t] = "idle"]
            /\ held' = [held EXCEPT ![t] = None]
    /\ UNCHANGED <<reg, users, hadUser, connections, nextInst, pending, lastAdded>>

\* The request is done: the guard and the clone of the handle are dropped.
Release(t) ==
    /\ pc[t] = "inside"
    /\ locked' = ReleaseGuard(locked, t)
    /\ pc' = [pc EXCEPT ![t] = "idle"]
    /\ held' = [held EXCEPT ![t] = None]
    /\ last' = Call("release", t, held[t], Ok("unit"))
    /\ UNCHANGED <<reg, users, hadUser, connections, nextInst, pending, lastAdded>>

Next ==
    \/ \E config \in Configs, reachable \in BOOLEAN : CreateConnection(config, reachable)
    \/ \E user_id \in UserIds : GetConnection(user_id)
    \/ \E req_ip \in UserIds, mintOk \in BOOLEAN : CreateGuestUser(req_ip, mintOk)
    \/ \E config \in Configs, user_id \in UserIds : SaveConfig(config, user_id)
    \/ \E user_id \in UserIds : FindUser(user_id)
    \/ \E user_id \in UserIds : LogUserOut(user_id)
    \/ \E user_id \in UserIds, i \in Insts : AddConnection(user_id, SharedConnection(i))
    \/ \E user_id \in UserIds : Authenticate(user_id)
    \/ \E t \in Threads, user_id \in UserIds : Fetch(t, user_id)
    \/ \E t \in Threads : Lock(t)
    \/ \E t \in Threads, op \in ConnOps, opOk \in BOOLEAN : Invoke(t, op, opOk)
    \/ \E t \in Threads : Release(t)

Spec == Init /\ [][Next]_vars

\* The operations on connections and the steps of the request threads.  The
\* operations left out (create_guest_user, save_config, find_user, log_user_out,
\* authentication) read and write the users map only: they leave connections,
\* nextInst, pending, pc, held and locked unchanged.
ConnNext ==
    \/ \E config \in Configs, reachable \in BOOLEAN : CreateConnection(config, reachable)
    \/ \E user_id \in UserIds : GetConnection(user_id)
    \/ \E user_id \in UserIds, i \in Insts : AddConnection(user_id, SharedConnection(i))
    \/ \E t \in Threads, user_id \in UserIds : Fetch(t, user_id)
    \/ \E t \in Threads : Lock(t)
    \/ \E t \in Threads, op \in ConnOps, opOk \in BOOLEAN : Invoke(t, op, opOk)
    \/ \E t \in Threads : Release(t)

\* Fair scheduling of the request threads: a thread in lock() gets the mutex if
\* it is free again and again, and a request holding a guard ends.
FairSpec ==
    /\ Init /\ [][ConnNext]_vars
    /\ \A t \in Threads : SF_vars(Lock(t)) /\ WF_vars(Release(t))

\* ---------------------------------------- registry calls, step by step
\* The calls of concurrent request threads on one shared registry.  A thread
\* asks for the registry (RegCall), borrows it as the receiver of the method
\* requires (RegEnter), runs the body of the method, one access to a map per
\* step, and gives the borrow back when the method returns (RegReturn).

\* A request thread calls op(user_id); add_connection is given a handle the
\* caller owns (from create_connection) or a clone of a registered one.
RegCall(t, op, user_id, conn) ==
    /\ reg[t].at = "idle"
    /\ IF op = "add_connection"
       THEN /\ conn # None
            /\ \/ conn.val \in pending
               \/ \E id \in UserIds : get_connection(connections, id) = conn
       ELSE conn = None
    /\ reg' = [reg EXCEPT ![t] = [at |-> "waiting", op |-> op, arg |-> user_id,
                                  conn |-> conn, saw |-> None, found |-> None,
                                  ret |-> None]]
    /\ UNCHANGED <<users, connections, nextInst, pending, pc, held, locked,
                   lastAdded, hadUser, last>>

\* The borrow is granted: the method starts on the maps as they are now.
RegEnter(t) ==
    /\ reg[t].at = "waiting"
    /\ CanBorrow(reg, t, reg[t].op)
    /\ reg' = [reg EXCEPT ![t].at = "begun",
                          ![t].saw = Some([users |-> users,
                                           connections |-> connections])]
    /\ UNCHANGED <<users, connections, nextInst, pending, pc, held, locked,
                   lastAdded, hadUser, last>>

\* get_connection: self.connections.get(user_id)
RegGetConnection(t) ==
    /\ reg[t].at = "begun" /\ reg[t].op = "get_connection"
    /\ reg' = [reg EXCEPT ![t].at = "done",
                          ![t].found = get_connection(connections, reg[t].arg),
                          ![t].ret = Some(Ok(get_connection(connections, reg[t].arg)))]
    /\ UNCHANGED <<users, connections, nextInst, pending, pc, held, locked,
                   lastAdded, hadUser, last>>

\* find_user: self.users.get(user_id)
RegFindUser(t) ==
    /\ reg[t].at = "begun" /\ reg[t].op = "find_user"
    /\ reg' = [reg EXCEPT ![t].at = "done",
                          ![t].found = find_user(users, reg[t].arg),
                          ![t].ret = Some(Ok(find_user(users, reg[t].arg)))]
    /\ UNCHANGED <<users, connections, nextInst, pending, pc, held, locked,
                   lastAdded, hadUser, last>>

\* create_guest_user: create_jwt(req_ip)?, then self.add_user(user)
RegCreateGuestUser(t, mintOk) ==
    /\ reg[t].at = "begun" /\ reg[t].op = "create_guest_user"
    /\ LET r == create_guest_user(users, reg[t].arg, mintOk)
       IN  /\ users' = r.users
           /\ reg' = [reg EXCEPT ![t].at = "done", ![t].ret = Some(r.ret)]
    /\ hadUser' = hadUser \cup {id \in UserIds : users'[id] # None}
    /\ UNCHANGED <<connections, nextInst, pending, pc, held, locked, lastAdded, last>>

\* save_config: self.find_user(user_id).expect(..), then user.save_config(config)
RegSaveConfig(t, config) ==
    /\ reg[t].at = "begun" /\ reg[t].op = "save_config"
    /\ LET r == save_config(users, config, reg[t].arg)
       IN  /\ users' = r.users
           /\ reg' = [reg EXCEPT ![t].at = "done",
                                 ![t].found = find_user(users, reg[t].arg),
                                 ![t].ret = Some(r.ret)]
    /\ hadUser' = hadUser \cup {id \in UserIds : users'[id] # None}
    /\ UNCHANGED <<connections, nextInst, pending, pc, held, locked, lastAdded, last>>

\* log_user_out, first access: if let Some(user) = self.find_user(user_id)
RegLogUserOutFind(t) ==
    /\ reg[t].at = "begun" /\ reg[t].op = "log_user_out"
    /\ reg' = [reg EXCEPT ![t].at = "found",
                          ![t].found = find_user(users, reg[t].arg)]
    /\ UNCHANGED <<users, connections, nextInst, pending, pc, held, locked,
                   lastAdded, hadUser, last>>

\* log_user_out, second access: self.users.remove(user_id) if a user was found
RegLogUserOutRemove(t) ==
    /\ reg[t].at = "found" /\ reg[t].op = "log_user_out"
    /\ users' = IF reg[t].found # None THEN users_remove(users, reg[t].arg)
                ELSE users
    /\ reg' = [reg EXCEPT ![t].at = "done", ![t].ret = Some(Ok("unit"))]
    /\ hadUser' = hadUser \cup {id \in UserIds : users'[id] # None}
    /\ UNCHANGED <<connections, nextInst, pending, pc, held, locked, lastAdded, last>>

\* add_connection: self.connections.insert(user_id, conn)
RegAddConnection(t) ==
    /\ reg[t].at = "begun" /\ reg[t].op = "add_connection"
    /\ connections' = add_connection(connections, reg[t].arg, reg[t].conn.val)
    /\ pending' = pending \ {reg[t].conn.val}
    /\ lastAdded' = [lastAdded EXCEPT ![reg[t].arg] = reg[t].conn]
    /\ reg' = [reg EXCEPT ![t].at = "done", ![t].ret = Some(Ok("unit"))]
    /\ UNCHANGED <<users, hadUser, nextInst, pc, held, locked, last>>

\* The method returns (or unwinds): the borrow ends.
RegReturn(t) ==
    /\ reg[t].at = "done"
    /\ reg' = [reg EXCEPT ![t] = NoCall]
    /\ UNCHANGED <<users, connections, nextInst, pending, pc, held, locked,
                   lastAdded, hadUser, last>>

RegNext ==
    \/ \E config \in Configs, reachable \in BOOLEAN : CreateConnection(config, reachable)
    \/ \E t \in Threads, op \in RegOps, user_id \in UserIds,
          conn \in {None} \cup {Some(SharedConnection(i)) : i \in Insts} :
             RegCall(t, op, user_id, conn)
    \/ \E t \in Threads : RegEnter(t)
    \/ \E t \in Threads : RegGetConnection(t)
    \/ \E t \in Threads : RegFindUser(t)
    \/ \E t \in Threads, mintOk \in BOOLEAN : RegCreateGuestUser(t, mintOk)
    \/ \E t \in Threads, config \in Configs : RegSaveConfig(t, config)
    \/ \E t \in Threads : RegLogUserOutFind(t)
    \/ \E t \in Threads : RegLogUserOutRemove(t)
    \/ \E t \in Threads : RegAddConnection(t)
    \/ \E t \in Threads : RegReturn(t)

RegSpec == Init /\ [][RegNext]_vars

\* ------------------------------------------------------------------ claims
RegistryOps == {"create_connection", "get_connection", "create_guest_user",
                "save_config", "find_user", "log_user_out", "add_connection"}

\* C1: get_connection(id) is None for every id never passed to add_connection,
\* and for every other id it is exactly the handle given to the most recent
\* add_connection(id, _); the value a get_connection call returned is that one.
C1_GetConnectionIsLatestAdded ==
    /\ \A id \in UserIds : get_connection(connections, id) = lastAdded[id]
    /\ last.op = "get_connection" => last.ret = Ok(lastAdded[last.arg])

\* An id was given a first handle and then a second one, which a lookup
\* returned, while the other id was never given any.
C1_Witness ==
    /\ last.op = "get_connection"
    /\ nextInst = 2 /\ pending = {}
    /\ last.ret = Ok(Some(SharedConnection(2)))
    /\ \E id \in UserIds : lastAdded[id] = None

\* A config whose source type is not Database(Mysql).
Unsupported(config) == ~(config.kind = "Database" /\ config.db = "Mysql")

\* C2: for a config whose source type is not the supported database variant,
\* create_connection returns an Unsupported-source error value to its caller
\* (it neither aborts nor returns a handle).
C2_UnsupportedSourceIsAnError ==
    (last.op = "create_connection" /\ Unsupported(last.arg))
        => last.ret = Err("UnsupportedSource")

\* C3: save_config for a user id with no entry in the users map reports a typed
\* user-not-found error to its caller instead of aborting.
C3_SaveConfigMissingUserIsAnError ==
    (last.op = "save_config" /\ last.was = None)
        => last.ret = Err("UserNotFound")

\* C4: a log_user_out(id) step on an absent id changes neither map and reports
\* no error; on a present id, find_user(id) is None right after it; logging out
\* again changes nothing more; and an absent id gets an entry again only by a
\* create_guest_user for that id.
C4_LogoutRemovesOnce ==
    [][ /\ \A id \in UserIds : (last'.op = "log_user_out" /\ LogUserOut(id)) =>
              /\ last'.ret = Ok("unit")
              /\ find_user(users, id) = None
                   => (users' = users /\ connections' = connections)
              /\ find_user(users', id) = None
              /\ log_user_out(users', id) = users'
        /\ \A id \in UserIds :
              (find_user(users, id) = None /\ find_user(users', id) # None)
                   => (last'.op = "create_guest_user" /\ last'.arg = id)
      ]_vars

\* A present (authenticated) user was logged out, and its connection stays.
C4_Witness ==
    /\ last.op = "log_user_out"
    /\ last.was = Some(User(last.arg, TRUE))
    /\ find_user(users, last.arg) = None
    /\ connections[last.arg] # None

\* C5: after a create_guest_user(origin) that succeeded, find_user(origin) is a
\* user with id = origin and is_logged = false, whatever the entry was before.
C5_GuestUserAfterCreate ==
    (last.op = "create_guest_user" /\ last.ret.tag = "Ok")
        => find_user(users, last.arg) = Some(User(last.arg, FALSE))

\* The call succeeded for an id that held an authenticated user.
C5_Witness ==
    /\ last.op = "create_guest_user"
    /\ last.ret.tag = "Ok"
    /\ last.was = Some(User(last.arg, TRUE))

\* C6: create_guest_user(origin) fails exactly when minting the session fails;
\* then the minting error is what it returns and the users map is unchanged.
C6_GuestFailsOnlyOnMinting ==
    [][ \A req_ip \in UserIds, mintOk \in BOOLEAN :
            (last'.op = "create_guest_user" /\ CreateGuestUser(req_ip, mintOk)) =>
              /\ (last'.ret.tag # "Ok") <=> (create_jwt(req_ip, mintOk).tag = "Err")
              /\ create_jwt(req_ip, mintOk).tag = "Err"
                   => (last'.ret = create_jwt(req_ip, mintOk) /\ users' = users)
      ]_vars

\* The call failed for an id that held an authenticated user, who is still there.
C6_Witness ==
    /\ last.op = "create_guest_user"
    /\ last.ret = Err("SessionMintError")
    /\ users[last.arg] = Some(User(last.arg, TRUE))

\* C7: no two request threads are inside operations on the same driver instance
\* at the same time: the holder of the guard is the only one inside.
C7_OneCallerInsideAHandle ==
    \A t \in Threads, u \in Threads :
        (t # u /\ pc[t] = "inside" /\ pc[u] = "inside")
            => held[t].val.inner # held[u].val.inner

\* One thread has just run save_table_config through a handle while another
\* waits in lock() on the same handle.
C7_Witness ==
    \E t \in Threads, u \in Threads :
        /\ pc[t] = "inside" /\ pc[u] = "waiting"
        /\ held[t] = held[u]
        /\ last = Call("save_table_config", t, held[t], Ok("unit"))

\* Thread t, inside an operation, keeps thread u from taking the mutex it waits for.
Blocks(t, u) ==
    /\ pc[t] = "inside" /\ pc[u] = "waiting"
    /\ held[u].val.mutex # NoMutex
    /\ locked[held[u].val.mutex] = t

\* C8 as stated: for two distinct ids that both have a connection entry, a
\* thread holding the guard of the one id's connection never blocks a thread
\* acquiring the other id's connection.
C8_DifferentIdsNeverBlock ==
    \A a \in UserIds, b \in UserIds, t \in Threads, u \in Threads :
        (a # b /\ connections[a] # None /\ connections[b] # None
              /\ held[t] = connections[a] /\ held[u] = connections[b])
            => ~Blocks(t, u)

\* C8 as amended: a thread holding the guard of one handle never blocks a thread
\* acquiring a different handle; two ids registered with the same handle share
\* its mutex.
C8_DistinctHandlesNeverBlock ==
    \A t \in Threads, u \in Threads :
        (pc[t] = "inside" /\ pc[u] = "waiting" /\ held[t] # held[u])
            => ~Blocks(t, u)

\* Two ids with different handles: one thread is inside the one, the other
\* thread waits for the other.
C8_Witness ==
    \E a \in UserIds, b \in UserIds, t \in Threads, u \in Threads :
        /\ a # b /\ connections[a] # None /\ connections[b] # None
        /\ connections[a] # connections[b]
        /\ pc[t] = "inside" /\ held[t] = connections[a]
        /\ pc[u] = "waiting" /\ held[u] = connections[b]

\* C9: a mutex is held only by a request that is inside an operation on its
\* handle (the guard is released when the request ends, with success or with a
\* failure), and under fair scheduling a thread waiting in lock() gets inside.
C9_GuardReleasedAndWaitersEnter ==
    /\ [](\A m \in Insts : locked[m] # NoThread =>
              (pc[locked[m]] = "inside" /\ held[locked[m]].val.mutex = m))
    /\ \A t \in Threads : (pc[t] = "waiting") ~> (pc[t] = "inside")

\* An operation has just failed, its guard is gone, and the thread that was
\* waiting for the same handle can take the mutex.
C9_Witness ==
    \E u \in Threads :
        /\ last.op \in ConnOps /\ last.ret.tag = "Err"
        /\ pc[u] = "waiting" /\ held[u] = last.was
        /\ pc[last.arg] = "idle"
        /\ CanLock(held[u].val)

\* C10: when add_connection(user_id, conn) overwrites an entry, the connection
\* it replaces is closed: it is not left open once add_connection returns.
C10_ReplacedConnectionIsClosed ==
    (last.op = "add_connection" /\ last.was # None
          /\ last.was # connections[last.arg])
        => Dropped(last.was.val)


\* C14: for the supported database variant with a driver that is constructed,
\* create_connection returns Ok(Some(handle)), never Ok(None); the handle wraps a
\* driver instance that no earlier handle wraps; and the call changes neither
\* map of the registry nor what was last added for any id.
C14_SupportedGivesFreshHandle ==
    [][ \A config \in Configs :
            (last'.op = "create_connection" /\ ~Unsupported(config)
                  /\ CreateConnection(config, TRUE)) =>
              /\ last'.ret.tag = "Ok"
              /\ last'.ret.val # None
              /\ last'.ret.val.val \in pending' \ pending
              /\ last'.ret.val.val.inner \notin 1..nextInst
              /\ \A id \in UserIds :
                    get_connection(connections', id) = get_connection(connections, id)
              /\ users' = users
      ]_vars

\* A second handle was created while the first is registered: the lookup of the
\* registered id still gives the first one, the new one is with the caller.
C14_Witness ==
    /\ last.op = "create_connection"
    /\ last.ret = Ok(Some(SharedConnection(2)))
    /\ SharedConnection(2) \in pending
    /\ \E id \in UserIds : get_connection(connections, id) = Some(SharedConnection(1))

\* C15: when the constructor of the supported driver fails, create_connection
\* returns that failure as an error (neither Ok(Some) nor Ok(None)), no handle
\* is produced and the registry is unchanged.
C15_DriverFailureIsReturned ==
    [][ \A config \in Configs :
            (last'.op = "create_connection" /\ ~Unsupported(config)
                  /\ CreateConnection(config, FALSE)) =>
              /\ last'.ret = MysqlConn_new(config, FALSE, nextInst + 1)
              /\ last'.ret.tag = "Err"
              /\ pending' = pending /\ nextInst' = nextInst
              /\ connections' = connections /\ users' = users
      ]_vars

\* The constructor failed while a connection is registered and a user is present.
C15_Witness ==
    /\ last.op = "create_connection"
    /\ last.ret = Err("ConnectionError")
    /\ \E id \in UserIds : connections[id] # None
    /\ \E id \in UserIds : users[id] # None

\* C11 as stated: in every reachable state, every id with an entry in the
\* connections map has, or had at some earlier point, an entry in the users map.
C11_ConnectionImpliesUser ==
    \A id \in UserIds : connections[id] # None => id \in hadUser

\* C11 as amended: the registry does not enforce it.  Every step keeps it,
\* except an add_connection(id, _) for an id that never had a user entry:
\* add_connection stores the entry without looking at the users map.
C11_OnlyAddConnectionBreaksIt ==
    [][ (C11_ConnectionImpliesUser
            /\ (last'.op = "add_connection" => last'.arg \in hadUser))
          => C11_ConnectionImpliesUser'
      ]_vars

\* A connection was added for an id whose user had been removed before, while
\* the other id never had a user and has no connection.
C11_Witness ==
    /\ last.op = "add_connection"
    /\ last.arg \in hadUser
    /\ users[last.arg] = None
    /\ connections[last.arg] # None
    /\ C11_ConnectionImpliesUser
    /\ hadUser # UserIds

\* The session state of an entry of the users map.
SessionState(u) ==
    IF u = None THEN "Absent"
    ELSE IF u.val.is_logged THEN "Authenticated" ELSE "Guest"

\* C12: the session state of an id changes only from absent to Guest (guest
\* creation), from Guest to Authenticated (authentication) and from Guest or
\* Authenticated to absent (log_user_out); never from Authenticated back to
\* Guest; and an absent id becomes present only by a guest or auth creation.
C12_SessionTransitions ==
    [][ \A id \in UserIds :
          LET a == SessionState(users[id])
              b == SessionState(users'[id])
          IN  a # b =>
                \/ a = "Absent" /\ b = "Guest" /\ last'.op = "create_guest_user"
                \/ a = "Guest" /\ b = "Authenticated" /\ last'.op = "authenticate"
                \/ a \in {"Guest", "Authenticated"} /\ b = "Absent"
                      /\ last'.op = "log_user_out"
      ]_vars

\* C16: log_user_out(id) leaves the connections map unchanged, so
\* get_connection(id) gives the same handle after it as before; and the entry
\* of an id changes only by an add_connection for that id.
C16_LogoutKeepsConnection ==
    [][ /\ \A id \in UserIds :
              (last'.op = "log_user_out" /\ LogUserOut(id)) =>
                 /\ connections' = connections
                 /\ get_connection(connections', id) = get_connection(connections, id)
        /\ \A id \in UserIds :
              get_connection(connections', id) # get_connection(connections, id)
                 => (last'.op = "add_connection" /\ last'.arg = id)
      ]_vars

\* A guest with a registered connection, which a request thread is using, was
\* logged out: the connection is still registered.
C16_Witness ==
    /\ last.op = "log_user_out"
    /\ last.was = Some(User(last.arg, FALSE))
    /\ users[last.arg] = None
    /\ get_connection(connections, last.arg) # None
    /\ \E t \in Threads : pc[t] = "inside"
                            /\ held[t] = get_connection(connections, last.arg)

\* C17: find_user, get_connection, and save_config for a user that exists,
\* leave the users map and the connections map exactly as they were.
C17_LookupsAndSaveChangeNothing ==
    [][ ( \/ last'.op \in {"find_user", "get_connection"}
          \/ (last'.op = "save_config" /\ last'.was # None) )
          => (users' = users /\ connections' = connections)
      ]_vars

\* save_config returned for an authenticated user who has a connection.
C17_Witness ==
    /\ last.op = "save_config"
    /\ last.ret = Ok("unit")
    /\ users[last.arg] = Some(User(last.arg, TRUE))
    /\ connections[last.arg] # None

\* C18: create_guest_user, log_user_out, add_connection and save_config called
\* with id A leave the users entry and the connections entry of every other
\* id unchanged; create_guest_user and log_user_out never change the
\* connections map, and add_connection never changes the users map.
C18_OtherIdsUntouched ==
    [][ /\ last'.op \in {"create_guest_user", "log_user_out",
                         "add_connection", "save_config"}
           => \A b \in UserIds \ {last'.arg} :
                 /\ users'[b] = users[b]
                 /\ connections'[b] = connections[b]
        /\ last'.op \in {"create_guest_user", "log_user_out"}
           => connections' = connections
        /\ last'.op = "add_connection" => users' = users
      ]_vars

\* One user was logged out while the other user is present and both have a
\* connection.
C18_Witness ==
    /\ last.op = "log_user_out"
    /\ last.was # None
    /\ \E b \in UserIds \ {last.arg} : users[b] # None /\ connections[b] # None
    /\ connections[last.arg] # None

\* The map a method reads or writes, and the methods that insert or remove.
MapOf(op) == IF op \in {"get_connection", "add_connection"} THEN "connections"
             ELSE "users"
Writes(op) == op \in {"create_guest_user", "add_connection", "log_user_out"}

\* What the call r leaves behind when it runs alone, in one step, on the maps
\* it borrowed: both maps and the value it returns.
AtomicEffect(r) ==
    LET s == r.saw.val
    IN  CASE r.op = "get_connection" ->
               [users |-> s.users, connections |-> s.connections,
                ret |-> Ok(get_connection(s.connections, r.arg))]
          [] r.op = "find_user" ->
               [users |-> s.users, connections |-> s.connections,
                ret |-> Ok(find_user(s.users, r.arg))]
          [] r.op = "create_guest_user" ->
               LET g == create_guest_user(s.users, r.arg, r.ret.val.tag = "Ok")
               IN  [users |-> g.users, connections |-> s.connections, ret |-> g.ret]
          [] r.op = "save_config" ->
               LET g == save_config(s.users, Configs, r.arg)
               IN  [users |-> g.users, connections |-> s.connections, ret |-> g.ret]
          [] r.op = "log_user_out" ->
               [users |-> log_user_out(s.users, r.arg),
                connections |-> s.connections, ret |-> Ok("unit")]
          [] r.op = "add_connection" ->
               [users |-> s.users,
                connections |-> add_connection(s.connections, r.arg, r.conn.val),
                ret |-> Ok("unit")]

\* C13: with registry calls made concurrently by several request threads, a
\* call that inserts or removes in a map is never inside the registry together
\* with another call on the same map; every call takes effect atomically (until
\* its first access the maps are as it borrowed them, and when it is done the
\* maps and its result are what the call gives in one step on the maps it
\* borrowed); and between the find and the remove of log_user_out the entry
\* it found is still the entry in the users map.
C13_RegistryCallsAreAtomic ==
    /\ \A t \in Threads, u \in Threads :
          (t # u /\ Inside(reg[t]) /\ Inside(reg[u])
                 /\ MapOf(reg[t].op) = MapOf(reg[u].op))
             => ~Writes(reg[t].op)
    /\ \A t \in Threads :
          /\ reg[t].at \in {"begun", "found"} =>
                (users = reg[t].saw.val.users
                   /\ connections = reg[t].saw.val.connections)
          /\ reg[t].at = "done" =>
                [users |-> users, connections |-> connections,
                 ret |-> reg[t].ret.val] = AtomicEffect(reg[t])
          /\ (reg[t].at = "found" /\ reg[t].op = "log_user_out") =>
                reg[t].found = find_user(users, reg[t].arg)

\* A log_user_out has found its user and not yet removed it, while the other
\* thread waits to create a guest user under the same id.
C13_Witness ==
    \E t \in Threads, u \in Threads :
        /\ reg[t].op = "log_user_out" /\ reg[t].at = "found"
        /\ reg[t].found # None
        /\ reg[u].op = "create_guest_user" /\ reg[u].at = "waiting"
        /\ reg[u].arg = reg[t].arg

====
